---- MODULE Spec2Model ----
(***************************************************************************)
(* rust-tfrecord: the concurrent record indexer (DatasetInit::from_paths)  *)
(* and the dataset accessor (Dataset::get / stream / clone / open_file)    *)
(* of src/src/dataset.rs.                                                  *)
(*                                                                         *)
(* Files are byte sequences.  The indexer parses them frame by frame, the  *)
(* accessor seeks to a locator's offset and reads the payload back.        *)
(***************************************************************************)
EXTENDS Integers, Sequences, FiniteSets, TLC

(***************************************************************************)
(* Bounds of the model.                                                    *)
(***************************************************************************)
\* largest number of dimensions and largest size of a dimension of a tensor
MaxRank == 4
MaxDim == 4
\* longest list of paths handed to from_paths
MaxPaths == 2
\* largest max_open_files / max_workers tried
MaxOpenFiles == 2
MaxWorkers == 2
\* number of Dataset handles and streams that may be alive at once
MaxHandles == 2

None == "None"

(***************************************************************************)
(* Record container format (crate::io::async_, not part of the sources     *)
(* at hand): 8-byte little-endian length, 4-byte checksum of the length,   *)
(* payload, 4-byte checksum of the payload.                                *)
(***************************************************************************)
LenFieldSize == 8
CksumSize == 4

RECURSIVE ToLE(_, _)
\* n as w little-endian bytes
ToLE(n, w) == IF w = 0 THEN <<>> ELSE <<n % 256>> \o ToLE(n \div 256, w - 1)

RECURSIVE FromLE(_)
\* value of a little-endian byte sequence
FromLE(bs) == IF bs = <<>> THEN 0 ELSE Head(bs) + 256 * FromLE(Tail(bs))

RECURSIVE SumBytes(_)
SumBytes(bs) == IF bs = <<>> THEN 0 ELSE Head(bs) + SumBytes(Tail(bs))

\* the integrity-check value of a byte sequence (opaque to the core)
Checksum(bs) == (SumBytes(bs) * 31 + Len(bs) + 7) % 65536

\* bytes pos+1 .. pos+n of a file (pos is a 0-based file position)
Slice(bytes, pos, n) == SubSeq(bytes, pos + 1, pos + n)

Ok(v, pos) == [tag |-> "ok", val |-> v, pos |-> pos]
Eof(pos) == [tag |-> "eof", val |-> 0, pos |-> pos]
Err(kind, pos) == [tag |-> "err", val |-> kind, pos |-> pos]

\* try_read_len(reader, check_integrity): None at a clean frame boundary,
\* an error for a frame that starts but cannot be completed
try_read_len(bytes, pos, check) ==
    IF pos >= Len(bytes) THEN Eof(pos)
    ELSE IF Len(bytes) - pos < LenFieldSize + CksumSize
         THEN Err("corruption", Len(bytes))
    ELSE LET lenBuf == Slice(bytes, pos, LenFieldSize)
             expect == FromLE(Slice(bytes, pos + LenFieldSize, CksumSize))
         IN  IF check /\ expect # Checksum(lenBuf)
             THEN Err("corruption", pos + LenFieldSize + CksumSize)
             ELSE Ok(FromLE(lenBuf), pos + LenFieldSize + CksumSize)

\* try_read_record_data(reader, len, check_integrity)
try_read_record_data(bytes, pos, len, check) ==
    IF Len(bytes) - pos < len + CksumSize
    THEN Err("corruption", Len(bytes))
    ELSE LET buf == Slice(bytes, pos, len)
             expect == FromLE(Slice(bytes, pos + len, CksumSize))
         IN  IF check /\ expect # Checksum(buf)
             THEN Err("corruption", pos + len + CksumSize)
             ELSE Ok(buf, pos + len + CksumSize)

(***************************************************************************)
(* The files on disk.  A file is written as a list of frames; a frame may  *)
(* carry a wrong payload checksum, and the file may be cut short.          *)
(***************************************************************************)
Frame(payload, cksumOk) == [payload |-> payload, cksumOk |-> cksumOk]

FrameBytes(f) ==
    LET lenBuf == ToLE(Len(f.payload), LenFieldSize)
        ck == Checksum(f.payload)
    IN  lenBuf \o ToLE(Checksum(lenBuf), CksumSize) \o f.payload
        \o ToLE(IF f.cksumOk THEN ck ELSE (ck + 1) % 65536, CksumSize)

RECURSIVE FramesBytes(_)
FramesBytes(fs) == IF fs = <<>> THEN <<>> ELSE FrameBytes(Head(fs)) \o FramesBytes(Tail(fs))

\* a file: its frames, and the number of trailing bytes cut off
FileOf(frames, cut) ==
    LET all == FramesBytes(frames)
    IN  [exists |-> TRUE, frames |-> frames, cut |-> cut,
         bytes |-> SubSeq(all, 1, Len(all) - cut)]

Missing == [exists |-> FALSE, frames |-> <<>>, cut |-> 0, bytes |-> <<>>]

\* the payload the codec rejects
BadPayload == <<9>>

FileNames == {"a", "b", "c", "d", "t", "u", "m"}

Disk ==
    [p \in FileNames |->
        CASE p = "a" -> FileOf(<<Frame(<<1>>, TRUE), Frame(<<2, 3>>, TRUE)>>, 0)
          [] p = "b" -> FileOf(<<Frame(<<4>>, TRUE)>>, 0)
          [] p = "c" -> FileOf(<<Frame(<<5>>, FALSE), Frame(<<6>>, TRUE)>>, 0)
          [] p = "d" -> FileOf(<<Frame(BadPayload, TRUE), Frame(<<7>>, TRUE)>>, 0)
          [] p = "t" -> FileOf(<<Frame(<<8>>, TRUE), Frame(<<8, 8>>, TRUE)>>, 5)
          [] p = "u" -> FileOf(<<Frame(<<8>>, TRUE), Frame(<<8, 8>>, TRUE)>>, 14)
          [] OTHER   -> Missing]


RECURSIVE LocatorsFrom(_, _, _)
\* the locators of the frames fs of path p, the first frame starting at pos
LocatorsFrom(p, fs, pos) ==
    IF fs = <<>> THEN <<>>
    ELSE LET off == pos + LenFieldSize + CksumSize
             n == Len(Head(fs).payload)
         IN  <<[path |-> p, offset |-> off, len |-> n]>>
             \o LocatorsFrom(p, Tail(fs), off + n + CksumSize)

\* what the writer of the file put there: one locator per frame, in frame order
FileLocators(p) == LocatorsFrom(p, Disk[p].frames, 0)

RECURSIVE ConcatLocators(_)
ConcatLocators(ps) ==
    IF ps = <<>> THEN <<>> ELSE FileLocators(Head(ps)) \o ConcatLocators(Tail(ps))

RECURSIVE ConcatFrames(_)
\* the frames of the paths ps as they were written, in path order then frame order
ConcatFrames(ps) ==
    IF ps = <<>> THEN <<>> ELSE Disk[Head(ps)].frames \o ConcatFrames(Tail(ps))

\* their payloads
ConcatPayloads(ps) == [k \in 1..Len(ConcatFrames(ps)) |-> ConcatFrames(ps)[k].payload]

\* the error a scan of path p must end in, judged from how the file was
\* written: None for a file that scans cleanly
FileDefect(p, check) ==
    IF ~Disk[p].exists THEN "io"
    ELSE IF Disk[p].cut > 0 THEN "corruption"
    ELSE IF check /\ \E k \in 1..Len(Disk[p].frames) : ~Disk[p].frames[k].cksumOk
         THEN "corruption"
    ELSE None

(***************************************************************************)
(* State.                                                                  *)
(***************************************************************************)
VARIABLES
    paths,            \* the argument of from_paths
    check_integrity,  \* DatasetInit.check_integrity
    max_open_files,   \* DatasetInit.max_open_files, 0 for None
    max_workers,      \* DatasetInit.max_workers (resolved)
    permits,          \* available permits of open_file_semaphore
    task,             \* per path: position of its spawned indexing task
    inner,            \* try_flatten: the path whose index stream is drained, 0 for none
    scanPos,          \* file position of the reader of the inner stream
    record_indexes,   \* the Vec<RecordIndex> collected so far / of the Dataset
    build,            \* "running", "ok" or "err": outcome of from_paths
    buildErr,         \* the error from_paths returned
    firstErr,         \* the first error that occurred anywhere, in time
    overtaken,        \* some task finished before the task of an earlier path
    handle,           \* the Dataset handles and streams
    ret,              \* the last value returned to a caller
    image             \* the call of a function of protobuf_ext/image_ext.rs under study

cfgVars == <<paths, check_integrity, max_open_files, max_workers>>
buildVars == <<task, inner, scanPos, build, buildErr, firstErr, overtaken>>
vars == <<paths, check_integrity, max_open_files, max_workers, permits, task,
          inner, scanPos, record_indexes, build, buildErr, firstErr, overtaken,
          handle, ret, image>>

PathLists == UNION {[1..n -> FileNames] : n \in 0..MaxPaths}

NPaths == Len(paths)

NoError == [kind |-> None, path |-> 0]
ErrorAt(kind, i) == [kind |-> kind, path |-> i]

\* a handle slot: kind is "free", "dataset" (a Dataset), "stream" (the try_unfold
\* of stream() with its own Dataset and cursor), "failed" (a try_unfold that has
\* yielded an error and holds no state any more) or "ended" (a try_unfold that
\* has reported the end of the stream); path and permit are the Dataset's
\* open_file, yielded counts the items the stream has produced
FreeHandle == [kind |-> "free", path |-> None, permit |-> FALSE,
               pc |-> "idle", arg |-> 0, cursor |-> 0, yielded |-> 0]

\* results of get and of a poll of a stream
ResNone == [tag |-> "none", val |-> <<>>, err |-> None]
ResSome(v) == [tag |-> "some", val |-> v, err |-> None]
ResErr(e) == [tag |-> "err", val |-> <<>>, err |-> e]

NoRet == [op |-> None, arg |-> 0, res |-> ResNone]
\* op is "get" or "poll", arg the index asked for (the cursor, for a poll)
Returned(op, i, res) == [op |-> op, arg |-> i, res |-> res]

\* a call that has not returned
ImgPending == [tag |-> "pending", val |-> <<>>]

\* no function of image_ext.rs is under study
NoImageCall == [fn |-> None, arg |-> <<>>, out |-> ImgPending]

Init ==
    /\ paths \in PathLists
    /\ check_integrity \in BOOLEAN
    /\ max_open_files \in 0..MaxOpenFiles
    /\ max_workers \in 1..MaxWorkers
    /\ permits = max_open_files
    /\ task = [i \in 1..Len(paths) |-> "unspawned"]
    /\ inner = 0
    /\ scanPos = 0
    /\ record_indexes = <<>>
    /\ build = "running"
    /\ buildErr = NoError
    /\ firstErr = NoError
    /\ overtaken = FALSE
    /\ handle = [h \in 1..MaxHandles |-> FreeHandle]
    /\ ret = NoRet
    /\ image = NoImageCall

(***************************************************************************)
(* The open-file semaphore.                                                *)
(***************************************************************************)
\* a build that makes a semaphore of no permits when max_open_files is None
LimitedEvenIfNone == TRUE

Limited == max_open_files # 0

\* a semaphore that never makes anyone wait
CanAcquireAlways == TRUE

\* Semaphore::acquire_owned completes only when a permit is available
CanAcquire == ~Limited \/ permits > 0

\* permits after n permits were taken (n < 0: given back)
Taken(n) == IF Limited THEN permits - n ELSE permits

(***************************************************************************)
(* from_paths: the per-path tasks (dataset.rs 66-95).                      *)
(***************************************************************************)
\* tasks spawned whose result the build has not taken out of the buffer yet
InFlight == {i \in 1..NPaths : task[i] \in {"spawned", "permit", "ready", "failed"}}

Spawned == {i \in 1..NPaths : task[i] # "unspawned"}

NoteError(e) == IF firstErr = NoError THEN e ELSE firstErr

\* semaphore.acquire_owned().await in the task of path i
TaskAcquire(i) ==
    /\ task[i] = "spawned"
    /\ Limited
    /\ CanAcquire
    /\ permits' = Taken(1)
    /\ task' = [task EXCEPT ![i] = "permit"]
    /\ UNCHANGED <<image, cfgVars, inner, scanPos, record_indexes, build, buildErr,
                   firstErr, overtaken, handle, ret>>

\* File::open(path).await? and the construction of the index stream: the
\* task ends with Ok(index_stream), which owns the reader and the permit, or
\* with the error of the open, its permit dropped
TaskOpen(i) ==
    /\ \/ task[i] = "permit"
       \/ task[i] = "spawned" /\ ~Limited
    /\ IF Disk[paths[i]].exists
       THEN /\ task' = [task EXCEPT ![i] = "ready"]
            /\ permits' = permits
            /\ firstErr' = firstErr
       ELSE /\ task' = [task EXCEPT ![i] = "failed"]
            /\ permits' = Taken(-1)
            /\ firstErr' = NoteError(ErrorAt("io", i))
    /\ overtaken' = (overtaken \/ \E j \in 1..(i - 1) : task[j] \in {"spawned", "permit"})
    /\ UNCHANGED <<image, cfgVars, inner, scanPos, record_indexes, build, buildErr, handle, ret>>

\* an executor that never drops the output of a detached task
TaskDetachedKept(i) ==
    /\ build # "running"
    /\ task[i] \in {"ready", "failed"}
    /\ task' = [task EXCEPT ![i] = "finished"]
    /\ UNCHANGED <<image, cfgVars, permits, inner, scanPos, record_indexes, build, buildErr,
                   firstErr, overtaken, handle, ret>>

\* the output of a task whose JoinHandle was dropped is dropped by the
\* executor once the task has finished
TaskDetachedDrop(i) ==
    /\ build # "running"
    /\ task[i] \in {"ready", "failed"}
    /\ task' = [task EXCEPT ![i] = "finished"]
    /\ permits' = IF task[i] = "ready" THEN Taken(-1) ELSE permits
    /\ UNCHANGED <<image, cfgVars, inner, scanPos, record_indexes, build, buildErr,
                   firstErr, overtaken, handle, ret>>

(***************************************************************************)
(* from_paths: buffered(max_workers), try_flatten, try_collect             *)
(* (dataset.rs 97-110) and record_index_stream (dataset.rs 217-241).       *)
(***************************************************************************)
Min(S) == CHOOSE x \in S : \A y \in S : x <= y

Unspawned == {i \in 1..NPaths : task[i] = "unspawned"}

\* a buffer without a limit
ToSpawnAll == Unspawned

\* Buffered::poll_next, first half: the paths whose task this poll spawns
ToSpawn ==
    {i \in Unspawned :
        Cardinality(InFlight) + Cardinality({j \in Unspawned : j < i}) < max_workers}

\* a buffer that hands on whichever output is there (buffer_unordered)
ReadyOutputsUnordered == {i \in InFlight : task[i] \in {"ready", "failed"}}

\* Buffered::poll_next, second half: the task whose output is handed on, if
\* it has one (FuturesOrdered: outputs leave in the order the tasks went in)
ReadyOutputs ==
    IF InFlight = {} THEN {}
    ELSE IF task[Min(InFlight)] \in {"ready", "failed"} THEN {Min(InFlight)} ELSE {}

\* the tasks after the try_collect future and all it owns have been dropped
DroppedTasks(t) ==
    [i \in 1..NPaths |-> IF t[i] \in {"ready", "failed", "consumed"} THEN "finished" ELSE t[i]]

\* the permits the dropped build gives back
DroppedPermits == Cardinality({i \in 1..NPaths : task[i] \in {"ready", "consumed"}})

\* a build that joins every spawned task before it returns the error
BuildFailJoinsAll(e, t) ==
    /\ \A i \in 1..NPaths : t[i] \notin {"spawned", "permit"}
    /\ build' = "err"
    /\ buildErr' = e
    /\ task' = DroppedTasks(t)
    /\ permits' = Taken(-DroppedPermits)
    /\ inner' = 0
    /\ scanPos' = 0
    /\ UNCHANGED <<image, cfgVars, record_indexes, overtaken, handle, ret>>

\* from_paths returns Err(e)
BuildFail(e, t) ==
    /\ build' = "err"
    /\ buildErr' = e
    /\ task' = DroppedTasks(t)
    /\ permits' = Taken(-DroppedPermits)
    /\ inner' = 0
    /\ scanPos' = 0
    /\ UNCHANGED <<image, cfgVars, record_indexes, overtaken, handle, ret>>

\* the Dataset of dataset.rs 115-122
NewDataset == [FreeHandle EXCEPT !.kind = "dataset"]

\* try_flatten polls the buffered stream of tasks
BuildPollOuter ==
    /\ build = "running"
    /\ inner = 0
    /\ LET spawned == [i \in 1..NPaths |-> IF i \in ToSpawn THEN "spawned" ELSE task[i]]
       IN  IF InFlight = {} /\ Unspawned = {}
           THEN \* the stream of tasks is exhausted: try_collect is done
                /\ build' = "ok"
                /\ handle' = [handle EXCEPT ![1] = NewDataset]
                /\ UNCHANGED <<image, cfgVars, permits, task, inner, scanPos, record_indexes,
                               buildErr, firstErr, overtaken, ret>>
           ELSE IF ReadyOutputs = {}
           THEN \* pending; the poll has spawned what fits into the buffer
                /\ ToSpawn # {}
                /\ task' = spawned
                /\ UNCHANGED <<image, cfgVars, permits, inner, scanPos, record_indexes, build,
                               buildErr, firstErr, overtaken, handle, ret>>
           ELSE \E h \in ReadyOutputs :
                IF task[h] = "ready"
                THEN /\ inner' = h
                     /\ scanPos' = 0
                     /\ task' = [spawned EXCEPT ![h] = "consumed"]
                     /\ UNCHANGED <<image, cfgVars, permits, record_indexes, build, buildErr,
                                    firstErr, overtaken, handle, ret>>
                ELSE /\ BuildFail(ErrorAt("io", h), spawned)
                     /\ UNCHANGED firstErr

\* a scan that takes a frame it cannot read for the end of the file
record_index_step_lenient(bytes, pos, check) ==
    LET l == try_read_len(bytes, pos, check)
        d == try_read_record_data(bytes, l.pos, l.val, check)
    IN  IF l.tag # "ok" \/ d.tag # "ok"
        THEN [tag |-> "end", err |-> None, offset |-> 0, len |-> 0, pos |-> pos]
        ELSE [tag |-> "item", err |-> None, offset |-> l.pos, len |-> l.val, pos |-> d.pos]

\* a scan that never verifies the payload checksum
record_index_step_unchecked(bytes, pos, check) ==
    LET l == try_read_len(bytes, pos, check)
    IN  IF l.tag = "eof" THEN [tag |-> "end", err |-> None, offset |-> 0, len |-> 0, pos |-> pos]
        ELSE IF l.tag = "err"
             THEN [tag |-> "err", err |-> l.val, offset |-> 0, len |-> 0, pos |-> l.pos]
        ELSE LET d == try_read_record_data(bytes, l.pos, l.val, FALSE)
             IN  IF d.tag = "err"
                 THEN [tag |-> "err", err |-> d.val, offset |-> 0, len |-> 0, pos |-> d.pos]
                 ELSE [tag |-> "item", err |-> None, offset |-> l.pos, len |-> l.val,
                       pos |-> d.pos]

\* a scan that takes the offset before it reads the length
record_index_step_offset_first(bytes, pos, check) ==
    LET l == try_read_len(bytes, pos, check)
    IN  IF l.tag = "eof" THEN [tag |-> "end", err |-> None, offset |-> 0, len |-> 0, pos |-> pos]
        ELSE IF l.tag = "err"
             THEN [tag |-> "err", err |-> l.val, offset |-> 0, len |-> 0, pos |-> l.pos]
        ELSE LET offset == pos
                 d == try_read_record_data(bytes, l.pos, l.val, check)
             IN  IF d.tag = "err"
                 THEN [tag |-> "err", err |-> d.val, offset |-> 0, len |-> 0, pos |-> d.pos]
                 ELSE [tag |-> "item", err |-> None, offset |-> offset, len |-> l.val,
                       pos |-> d.pos]

\* one step of the try_unfold of record_index_stream on a reader at pos
record_index_step(bytes, pos, check) ==
    LET l == try_read_len(bytes, pos, check)
    IN  IF l.tag = "eof" THEN [tag |-> "end", err |-> None, offset |-> 0, len |-> 0, pos |-> pos]
        ELSE IF l.tag = "err"
             THEN [tag |-> "err", err |-> l.val, offset |-> 0, len |-> 0, pos |-> l.pos]
        ELSE LET offset == l.pos
                 d == try_read_record_data(bytes, offset, l.val, check)
             IN  IF d.tag = "err"
                 THEN [tag |-> "err", err |-> d.val, offset |-> 0, len |-> 0, pos |-> d.pos]
                 ELSE [tag |-> "item", err |-> None, offset |-> offset, len |-> l.val,
                       pos |-> d.pos]

\* a build whose map_ok drops the permit itself, not a clone of it, with the
\* first locator
BuildScanFrameDropsPermit ==
    /\ build = "running"
    /\ inner # 0
    /\ LET s == record_index_step(Disk[paths[inner]].bytes, scanPos, check_integrity)
       IN  CASE s.tag = "item" ->
                  /\ record_indexes' = Append(record_indexes,
                        [path |-> paths[inner], offset |-> s.offset, len |-> s.len])
                  /\ scanPos' = s.pos
                  /\ task' = [task EXCEPT ![inner] = "finished"]
                  /\ permits' = IF task[inner] = "consumed" THEN Taken(-1) ELSE permits
                  /\ UNCHANGED <<image, cfgVars, inner, build, buildErr,
                                 firstErr, overtaken, handle, ret>>
             [] s.tag = "end" ->
                  /\ task' = [task EXCEPT ![inner] = "finished"]
                  /\ permits' = IF task[inner] = "consumed" THEN Taken(-1) ELSE permits
                  /\ inner' = 0
                  /\ scanPos' = 0
                  /\ UNCHANGED <<image, cfgVars, record_indexes, build, buildErr, firstErr,
                                 overtaken, handle, ret>>
             [] s.tag = "err" ->
                  /\ BuildFail(ErrorAt(s.err, inner), task)
                  /\ firstErr' = NoteError(ErrorAt(s.err, inner))

\* a build whose exhausted index stream keeps the permit
BuildScanFrameKeepsPermit ==
    /\ build = "running"
    /\ inner # 0
    /\ LET s == record_index_step(Disk[paths[inner]].bytes, scanPos, check_integrity)
       IN  CASE s.tag = "item" ->
                  /\ record_indexes' = Append(record_indexes,
                        [path |-> paths[inner], offset |-> s.offset, len |-> s.len])
                  /\ scanPos' = s.pos
                  /\ UNCHANGED <<image, cfgVars, permits, task, inner, build, buildErr,
                                 firstErr, overtaken, handle, ret>>
             [] s.tag = "end" ->
                  /\ task' = [task EXCEPT ![inner] = "finished"]
                  /\ inner' = 0
                  /\ scanPos' = 0
                  /\ UNCHANGED <<image, cfgVars, permits, record_indexes, build, buildErr,
                                 firstErr, overtaken, handle, ret>>
             [] s.tag = "err" ->
                  /\ BuildFail(ErrorAt(s.err, inner), task)
                  /\ firstErr' = NoteError(ErrorAt(s.err, inner))

\* try_flatten polls the index stream of path inner; map_ok drops the permit
\* clone of the item, try_collect pushes the RecordIndex
BuildScanFrame ==
    /\ build = "running"
    /\ inner # 0
    /\ LET s == record_index_step(Disk[paths[inner]].bytes, scanPos, check_integrity)
       IN  CASE s.tag = "item" ->
                  /\ record_indexes' = Append(record_indexes,
                        [path |-> paths[inner], offset |-> s.offset, len |-> s.len])
                  /\ scanPos' = s.pos
                  /\ UNCHANGED <<image, cfgVars, permits, task, inner, build, buildErr,
                                 firstErr, overtaken, handle, ret>>
             [] s.tag = "end" ->
                  \* the index stream is dropped: reader closed, permit released
                  /\ task' = [task EXCEPT ![inner] = "finished"]
                  /\ permits' = Taken(-1)
                  /\ inner' = 0
                  /\ scanPos' = 0
                  /\ UNCHANGED <<image, cfgVars, record_indexes, build, buildErr, firstErr,
                                 overtaken, handle, ret>>
             [] s.tag = "err" ->
                  /\ BuildFail(ErrorAt(s.err, inner), task)
                  /\ firstErr' = NoteError(ErrorAt(s.err, inner))

(***************************************************************************)
(* Dataset (dataset.rs 141-213, 243-251).                                  *)
(***************************************************************************)
num_records == Len(record_indexes)

\* GenericRecord::from_bytes: the codec rejects some payloads
from_bytes(bytes) == IF bytes = BadPayload THEN ResErr("decode") ELSE ResSome(bytes)

\* a read that verifies the payload checksum
try_read_record_at_checked(bytes, offset, len) == try_read_record_data(bytes, offset, len, TRUE)

\* a read that forgets the seek of a freshly opened reader
try_read_record_at_noseek(bytes, offset, len) == try_read_record_data(bytes, 0, len, FALSE)

\* try_read_record_at(reader, offset, len): seek to offset, read unchecked
try_read_record_at(bytes, offset, len) == try_read_record_data(bytes, offset, len, FALSE)

\* lines 167-169 of get, on the open reader of the locator's file
ReadRecord(loc) ==
    LET r == try_read_record_at(Disk[loc.path].bytes, loc.offset, loc.len)
    IN  IF r.tag = "err" THEN ResErr(r.val) ELSE from_bytes(r.val)

NoLocator == [path |-> None, offset |-> 0, len |-> 0]

\* a lookup that clamps the index to the last record
LookupClamped(index) ==
    IF num_records = 0 THEN [found |-> FALSE, loc |-> NoLocator]
    ELSE [found |-> TRUE,
          loc |-> record_indexes[(IF index < num_records THEN index ELSE num_records - 1) + 1]]

\* self.state.record_indexes.get(index)
Lookup(index) ==
    IF index < num_records
    THEN [found |-> TRUE, loc |-> record_indexes[index + 1]]
    ELSE [found |-> FALSE, loc |-> NoLocator]

Handles == 1..MaxHandles
FreeSlots == {h \in Handles : handle[h].kind = "free"}

\* what a Dataset gives back when it is dropped
HeldBy(hr) == IF hr.permit THEN 1 ELSE 0

\* a Dataset that is unusable after an error, as a stream is
FinishPoisoned(hr, res) ==
    IF res.tag = "some" /\ hr.kind # "dataset"
    THEN [hr EXCEPT !.pc = "idle", !.arg = 0, !.cursor = @ + 1, !.yielded = @ + 1]
    ELSE IF res.tag # "err" /\ hr.kind = "dataset" THEN [hr EXCEPT !.pc = "idle", !.arg = 0]
    ELSE [hr EXCEPT !.kind = IF res.tag = "err" THEN "failed" ELSE "ended",
                    !.pc = "idle", !.arg = 0, !.path = None, !.permit = FALSE,
                    !.yielded = IF res.tag = "err" THEN @ + 1 ELSE @]

\* the handle after get(i) has returned res to its caller: a Dataset is idle
\* again, a stream applies the step of its try_unfold (dataset.rs 177-185)
Finish(hr, res) ==
    IF hr.kind = "dataset" THEN [hr EXCEPT !.pc = "idle", !.arg = 0]
    ELSE IF res.tag = "some"
         THEN [hr EXCEPT !.pc = "idle", !.arg = 0, !.cursor = @ + 1, !.yielded = @ + 1]
    ELSE \* Ok(None) or Err: the Dataset of the stream is dropped with the future
         [hr EXCEPT !.kind = IF res.tag = "err" THEN "failed" ELSE "ended",
                    !.pc = "idle", !.arg = 0, !.path = None, !.permit = FALSE,
                    !.yielded = IF res.tag = "err" THEN @ + 1 ELSE @]

\* permits given back when the step that returned res finished
FinishReleased(hr, res) ==
    IF hr.kind = "stream" /\ res.tag # "some" THEN HeldBy(hr) ELSE 0

OpOf(hr) == IF hr.kind = "dataset" THEN "get" ELSE "poll"

\* an open_file that waits for the new permit with the old file still open
GetStartKeepsOld(h, i) ==
    LET hr == handle[h]
    IN  IF ~Lookup(i).found
        THEN /\ handle' = [handle EXCEPT ![h] = Finish(hr, ResNone)]
             /\ permits' = Taken(-FinishReleased(hr, ResNone))
             /\ ret' = Returned(OpOf(hr), i, ResNone)
        ELSE LET loc == Lookup(i).loc
             IN  IF hr.path = loc.path
                 THEN LET res == ReadRecord(loc)
                      IN  /\ handle' = [handle EXCEPT ![h] = Finish(hr, res)]
                          /\ permits' = Taken(-FinishReleased(hr, res))
                          /\ ret' = Returned(OpOf(hr), i, res)
                 ELSE /\ handle' = [handle EXCEPT ![h] = [hr EXCEPT !.pc = "acquire", !.arg = i]]
                      /\ permits' = permits
                      /\ ret' = ret

\* an open_file without a cache: every get gives the file up and opens it again
GetStartAlwaysReopens(h, i) ==
    LET hr == handle[h]
    IN  IF ~Lookup(i).found
        THEN /\ handle' = [handle EXCEPT ![h] = Finish(hr, ResNone)]
             /\ permits' = Taken(-FinishReleased(hr, ResNone))
             /\ ret' = Returned(OpOf(hr), i, ResNone)
        ELSE /\ handle' = [handle EXCEPT ![h] =
                   [hr EXCEPT !.path = None, !.permit = FALSE,
                              !.pc = "acquire", !.arg = i]]
             /\ permits' = Taken(-HeldBy(hr))
             /\ ret' = ret

\* a get that gives up the open file before it looks the index up
GetStartClosesFirst(h, i) ==
    LET hr == handle[h]
        closed == [hr EXCEPT !.path = None, !.permit = FALSE]
    IN  IF ~Lookup(i).found
        THEN /\ handle' = [handle EXCEPT ![h] = Finish(closed, ResNone)]
             /\ permits' = Taken(-HeldBy(hr))
             /\ ret' = Returned(OpOf(hr), i, ResNone)
        ELSE /\ handle' = [handle EXCEPT ![h] = [closed EXCEPT !.pc = "acquire", !.arg = i]]
             /\ permits' = Taken(-HeldBy(hr))
             /\ ret' = ret

\* get(i) up to the permit acquisition of open_file (dataset.rs 160-203)
GetStart(h, i) ==
    LET hr == handle[h]
    IN  IF ~Lookup(i).found
        THEN /\ handle' = [handle EXCEPT ![h] = Finish(hr, ResNone)]
             /\ permits' = Taken(-FinishReleased(hr, ResNone))
             /\ ret' = Returned(OpOf(hr), i, ResNone)
        ELSE LET loc == Lookup(i).loc
             IN  IF hr.path = loc.path
                 THEN \* the cached reader is put back and used
                      LET res == ReadRecord(loc)
                      IN  /\ handle' = [handle EXCEPT ![h] = Finish(hr, res)]
                          /\ permits' = Taken(-FinishReleased(hr, res))
                          /\ ret' = Returned(OpOf(hr), i, res)
                 ELSE \* drop previous permit and reader, then wait for a permit
                      /\ handle' = [handle EXCEPT ![h] =
                            [hr EXCEPT !.path = None, !.permit = FALSE,
                                       !.pc = "acquire", !.arg = i]]
                      /\ permits' = Taken(-HeldBy(hr))
                      /\ ret' = ret

\* Dataset::get called on a Dataset handle
GetBegin(h, i) ==
    /\ build = "ok"
    /\ handle[h].kind = "dataset"
    /\ handle[h].pc = "idle"
    /\ GetStart(h, i)
    /\ UNCHANGED <<image, cfgVars, buildVars, record_indexes>>

\* a stream is polled
StreamPoll(h) ==
    /\ build = "ok"
    /\ handle[h].kind \in {"stream", "failed", "ended"}
    /\ handle[h].pc = "idle"
    /\ IF handle[h].kind # "stream"
       THEN \* no state and no future left: Poll::Ready(None)
            /\ ret' = Returned("poll", handle[h].cursor, ResNone)
            /\ handle' = [handle EXCEPT ![h].kind = "ended"]
            /\ UNCHANGED permits
       ELSE GetStart(h, handle[h].cursor)
    /\ UNCHANGED <<image, cfgVars, buildVars, record_indexes>>

\* open_file from the permit acquisition on, and the rest of get
\* (dataset.rs 203-211, 167-169)
GetOpen(h) ==
    /\ build = "ok"
    /\ handle[h].pc = "acquire"
    /\ CanAcquire
    /\ LET hr == handle[h]
           loc == Lookup(hr.arg).loc
       IN  IF Disk[loc.path].exists
           THEN LET opened == [hr EXCEPT !.path = loc.path, !.permit = Limited]
                    res == ReadRecord(loc)
                IN  /\ handle' = [handle EXCEPT ![h] = Finish(opened, res)]
                    /\ permits' = Taken(1 - FinishReleased(opened, res))
                    /\ ret' = Returned(OpOf(hr), hr.arg, res)
           ELSE \* File::open fails: the permit just acquired is dropped
                /\ handle' = [handle EXCEPT ![h] = Finish(hr, ResErr("io"))]
                /\ permits' = permits
                /\ ret' = Returned(OpOf(hr), hr.arg, ResErr("io"))
    /\ UNCHANGED <<image, cfgVars, buildVars, record_indexes>>

\* a clone that takes the open file of the original along
CloneWithCache(h) ==
    /\ build = "ok"
    /\ handle[h].kind = "dataset"
    /\ handle[h].pc = "idle"
    /\ FreeSlots # {}
    /\ handle' = [handle EXCEPT ![Min(FreeSlots)] = handle[h]]
    /\ UNCHANGED <<image, cfgVars, buildVars, record_indexes, permits, ret>>

\* Dataset::clone: same state, open_file: None
Clone(h) ==
    /\ build = "ok"
    /\ handle[h].kind = "dataset"
    /\ handle[h].pc = "idle"
    /\ FreeSlots # {}
    /\ handle' = [handle EXCEPT ![Min(FreeSlots)] = NewDataset]
    /\ UNCHANGED <<image, cfgVars, buildVars, record_indexes, permits, ret>>

\* a stream that goes on after the record of the last get
StreamResumes(h) ==
    /\ build = "ok"
    /\ handle[h].kind = "dataset"
    /\ handle[h].pc = "idle"
    /\ FreeSlots # {}
    /\ handle' = [handle EXCEPT ![Min(FreeSlots)] =
          [NewDataset EXCEPT !.kind = "stream",
                             !.cursor = IF ret.op = "get" THEN ret.arg + 1 ELSE 0]]
    /\ UNCHANGED <<image, cfgVars, buildVars, record_indexes, permits, ret>>

\* Dataset::stream: try_unfold((self.clone(), 0), ..)
Stream(h) ==
    /\ build = "ok"
    /\ handle[h].kind = "dataset"
    /\ handle[h].pc = "idle"
    /\ FreeSlots # {}
    /\ handle' = [handle EXCEPT ![Min(FreeSlots)] = [NewDataset EXCEPT !.kind = "stream"]]
    /\ UNCHANGED <<image, cfgVars, buildVars, record_indexes, permits, ret>>

\* a drop that takes the shared index with it
DropFreesIndex(h) ==
    /\ build = "ok"
    /\ \/ handle[h].kind = "dataset" /\ handle[h].pc = "idle"
       \/ handle[h].kind \in {"stream", "failed", "ended"}
    /\ handle' = [handle EXCEPT ![h] = FreeHandle]
    /\ permits' = Taken(-HeldBy(handle[h]))
    /\ record_indexes' = <<>>
    /\ UNCHANGED <<image, cfgVars, buildVars, ret>>

\* a drop that forgets the permit of the open file
DropKeepsPermit(h) ==
    /\ build = "ok"
    /\ \/ handle[h].kind = "dataset" /\ handle[h].pc = "idle"
       \/ handle[h].kind \in {"stream", "failed", "ended"}
    /\ handle' = [handle EXCEPT ![h] = FreeHandle]
    /\ UNCHANGED <<image, cfgVars, buildVars, record_indexes, permits, ret>>

\* a Dataset or a stream goes out of scope
Drop(h) ==
    /\ build = "ok"
    /\ \/ handle[h].kind = "dataset" /\ handle[h].pc = "idle"
       \/ handle[h].kind \in {"stream", "failed", "ended"}
    /\ handle' = [handle EXCEPT ![h] = FreeHandle]
    /\ permits' = Taken(-HeldBy(handle[h]))
    /\ UNCHANGED <<image, cfgVars, buildVars, record_indexes, ret>>

NextBuild ==
    \/ \E i \in 1..NPaths : TaskAcquire(i)
    \/ \E i \in 1..NPaths : TaskOpen(i)
    \/ \E i \in 1..NPaths : TaskDetachedDrop(i)
    \/ BuildPollOuter
    \/ BuildScanFrame

NextRead ==
    \/ \E h \in Handles, i \in 0..(num_records + 1) : GetBegin(h, i)
    \/ \E h \in Handles : GetOpen(h)
    \/ \E h \in Handles : StreamPoll(h)
    \/ \E h \in Handles : Clone(h)
    \/ \E h \in Handles : Stream(h)
    \/ \E h \in Handles : Drop(h)

Next == NextBuild \/ NextRead

Spec == Init /\ [][Next]_vars

\* what the executor and the semaphore guarantee: spawned tasks and the build
\* future are run, a waiter gets a permit if permits keep coming back
\* (Semaphore is fair), a get that holds its permit is run to its end.  Whether
\* a caller calls get, polls, clones or drops is up to the caller.
Fairness ==
    /\ \A i \in 1..MaxPaths : SF_vars(i <= NPaths /\ TaskAcquire(i))
    /\ \A i \in 1..MaxPaths : WF_vars(i <= NPaths /\ TaskOpen(i))
    /\ \A i \in 1..MaxPaths : WF_vars(i <= NPaths /\ TaskDetachedDrop(i))
    /\ WF_vars(BuildPollOuter)
    /\ WF_vars(BuildScanFrame)
    /\ \A h \in Handles : SF_vars(GetOpen(h))

SpecFair == Init /\ [][Next]_vars /\ Fairness


\* from_paths alone, up to its return and the end of the tasks it spawned,
\* with what the executor and the semaphore guarantee for the build
FairnessBuild ==
    /\ \A i \in 1..MaxPaths : SF_vars(i <= NPaths /\ TaskAcquire(i))
    /\ \A i \in 1..MaxPaths : WF_vars(i <= NPaths /\ TaskOpen(i))
    /\ \A i \in 1..MaxPaths : WF_vars(i <= NPaths /\ TaskDetachedDrop(i))
    /\ WF_vars(BuildPollOuter)
    /\ WF_vars(BuildScanFrame)

SpecBuildFair == Init /\ [][NextBuild]_vars /\ FairnessBuild

\* a failed open that leaves the permit with the handle
GetOpenFailsKeepsPermit(h) ==
    /\ build = "ok"
    /\ handle[h].kind = "dataset"
    /\ handle[h].pc = "acquire"
    /\ CanAcquire
    /\ LET hr == handle[h]
       IN  /\ handle' = [handle EXCEPT ![h] = [Finish(hr, ResErr("io")) EXCEPT !.permit = Limited]]
           /\ permits' = Taken(1)
           /\ ret' = Returned(OpOf(hr), hr.arg, ResErr("io"))
    /\ UNCHANGED <<image, cfgVars, buildVars, record_indexes>>

\* open_file from the permit acquisition on, when the file system refuses
\* the open (the file was removed or made unreadable after the build):
\* File::open(&path).await? returns the error, the permit just acquired is
\* dropped with the frame of open_file (dataset.rs 203-206).  The refusals
\* followed here are those that meet the get of a Dataset handle; a stream
\* whose step fails ends as after any other error.
GetOpenFails(h) ==
    /\ build = "ok"
    /\ handle[h].kind = "dataset"
    /\ handle[h].pc = "acquire"
    /\ CanAcquire
    /\ LET hr == handle[h]
       IN  /\ handle' = [handle EXCEPT ![h] = Finish(hr, ResErr("io"))]
           /\ permits' = permits
           /\ ret' = Returned(OpOf(hr), hr.arg, ResErr("io"))
    /\ UNCHANGED <<image, cfgVars, buildVars, record_indexes>>

\* the program on a file system that may refuse to open a file at read time
NextIoFail == Next \/ \E h \in Handles : GetOpenFails(h)

SpecIoFail == Init /\ [][NextIoFail]_vars

(***************************************************************************)
(* protobuf_ext/image_ext.rs: ColorSpace and TchTensorAsImage::new.        *)
(***************************************************************************)
\* what a call ends in: a value, an Err value, or a panic that unwinds
ImgOk(v) == [tag |-> "ok", val |-> v]
ImgErr(e) == [tag |-> "err", val |-> e]
ImgPanic(msg) == [tag |-> "panic", val |-> msg]

ColorSpaces == {"Luma", "LumaA", "Rgb", "Rgba", "DigitalYuv", "Bgra"}

\* the #[repr(i32)] discriminant of a ColorSpace
Discriminant(cs) ==
    CASE cs = "Luma" -> 1 [] cs = "LumaA" -> 2 [] cs = "Rgb" -> 3
      [] cs = "Rgba" -> 4 [] cs = "DigitalYuv" -> 5 [] cs = "Bgra" -> 6

\* a num_channels that returns the discriminant
num_channels_discriminant(cs) == Discriminant(cs)

\* ColorSpace::num_channels
num_channels(cs) ==
    CASE cs = "Luma" -> 1
      [] cs = "LumaA" -> 2
      [] cs = "Rgb" -> 3
      [] cs = "Rgba" -> 4
      [] cs = "DigitalYuv" -> 3
      [] cs = "Bgra" -> 4

\* the variants of image::ColorType
ColorTypes == {"L8", "La8", "Rgb8", "Rgba8", "Bgr8", "Bgra8", "L16", "La16", "Rgb16", "Rgba16"}

\* impl TryFrom<ColorType> for ColorSpace
ColorSpace_try_from(from) ==
    CASE from = "L8" -> ImgOk("Luma")
      [] from = "La8" -> ImgOk("LumaA")
      [] from = "Rgb8" -> ImgOk("Rgb")
      [] from = "Rgba8" -> ImgOk("Rgba")
      [] from = "Bgra8" -> ImgOk("Bgra")
      [] from = "L16" -> ImgOk("Luma")
      [] from = "La16" -> ImgOk("LumaA")
      [] from = "Rgb16" -> ImgOk("Rgb")
      [] from = "Rgba16" -> ImgOk("Rgba")
      [] OTHER -> ImgErr("conversion")

TchChannelOrders == {"CHW", "HWC"}

\* the shapes of the tensors handed to TchTensorAsImage::new
TensorShapes == UNION {[1..r -> 1..MaxDim] : r \in 1..MaxRank}

\* Tensor::size3: the three sizes of a 3-dimensional tensor, an error otherwise
size3(shape) == IF Len(shape) = 3 THEN ImgOk(shape) ELSE ImgErr("shape")

\* TchTensorAsImage::new: both error paths are todo!(), which panics
TchTensorAsImage_new(color_space, order, shape) ==
    IF size3(shape).tag = "err" THEN ImgPanic("not yet implemented")
    ELSE LET sc == IF order = "CHW" THEN shape[1] ELSE shape[3]
         IN  IF num_channels(color_space) # sc
             THEN ImgPanic("not yet implemented")
             ELSE ImgOk([color_space |-> color_space, order |-> order, tensor |-> shape])

\* the calls studied, before they are made
ImageCalls ==
    {[fn |-> "num_channels", arg |-> <<cs>>, out |-> ImgPending] : cs \in ColorSpaces}
    \cup {[fn |-> "try_from", arg |-> <<ct>>, out |-> ImgPending] : ct \in ColorTypes}
    \cup {[fn |-> "new", arg |-> <<cs, o, sh>>, out |-> ImgPending] :
             cs \in ColorSpaces, o \in TchChannelOrders, sh \in TensorShapes}

\* what the functions of image_ext.rs do not touch
datasetVars == <<cfgVars, buildVars, permits, record_indexes, handle, ret>>

\* one call of a function of image_ext.rs, no Dataset being built
ImageInit ==
    /\ paths = <<>>
    /\ check_integrity = TRUE
    /\ max_open_files = 0
    /\ max_workers = 1
    /\ permits = 0
    /\ task = <<>>
    /\ inner = 0
    /\ scanPos = 0
    /\ record_indexes = <<>>
    /\ build = "running"
    /\ buildErr = NoError
    /\ firstErr = NoError
    /\ overtaken = FALSE
    /\ handle = [h \in 1..MaxHandles |-> FreeHandle]
    /\ ret = NoRet
    /\ image \in ImageCalls

CallNumChannels ==
    /\ image.fn = "num_channels"
    /\ image.out = ImgPending
    /\ image' = [image EXCEPT !.out = ImgOk(num_channels(image.arg[1]))]
    /\ UNCHANGED datasetVars

CallTryFrom ==
    /\ image.fn = "try_from"
    /\ image.out = ImgPending
    /\ image' = [image EXCEPT !.out = ColorSpace_try_from(image.arg[1])]
    /\ UNCHANGED datasetVars

CallNew ==
    /\ image.fn = "new"
    /\ image.out = ImgPending
    /\ image' = [image EXCEPT !.out = TchTensorAsImage_new(image.arg[1], image.arg[2],
                                                            image.arg[3])]
    /\ UNCHANGED datasetVars

NextImage == CallNumChannels \/ CallTryFrom \/ CallNew

SpecImage == ImageInit /\ [][NextImage]_vars

(***************************************************************************)
(* Properties.                                                             *)
(***************************************************************************)
\* the files that are held open: by finished tasks and the index stream being
\* drained, and by the caches of the handles
OpenFiles ==
    Cardinality({i \in 1..NPaths : task[i] \in {"ready", "consumed"}})
    + Cardinality({h \in Handles : handle[h].path # None})

\* C1: a successful from_paths returns the locators of the paths in input
\* path order, each path's in frame order, whatever order the tasks finished in
C1_IndexInPathOrder ==
    build = "ok" => record_indexes = ConcatLocators(paths)

\* a build of two different files succeeded although the second task had
\* finished before the first
C1_Witness ==
    /\ build = "ok"
    /\ overtaken
    /\ NPaths = 2
    /\ paths[1] # paths[2]
    /\ Len(record_indexes) = 3

\* C2: with max_open_files = k never more than k files are open
C2_OpenFilesBounded ==
    Limited => OpenFiles <= max_open_files

\* max_open_files = 1, one handle has a file open and a get on another handle
\* is waiting for the permit to open a different file
C2_Witness ==
    /\ max_open_files = 1
    /\ \E h1, h2 \in Handles :
          /\ handle[h1].path # None
          /\ handle[h2].pc = "acquire"
          /\ record_indexes[handle[h2].arg + 1].path # handle[h1].path

\* C3: get(i) with i < num_records returns the payload of the i-th frame in
\* index order, if the codec accepts that payload
C3_GetReturnsPayload ==
    (/\ ret.op = "get"
     /\ ret.arg < num_records
     /\ ConcatPayloads(paths)[ret.arg + 1] # BadPayload)
    => ret.res = ResSome(ConcatPayloads(paths)[ret.arg + 1])

\* a get of a record that is neither the first of the index nor of its file
\* has returned while another handle holds a file
C3_Witness ==
    /\ ret.op = "get"
    /\ ret.arg >= 1
    /\ ret.arg < num_records
    /\ record_indexes[ret.arg + 1].offset > LenFieldSize + CksumSize
    /\ ret.res.tag = "some"

\* C4: get(i) with i >= num_records returns Ok(None)
C4_OutOfRangeIsNone ==
    (ret.op = "get" /\ ret.arg >= num_records) => ret.res = ResNone

\* get(num_records + 1) has returned on a dataset with records
C4_Witness ==
    /\ ret.op = "get"
    /\ num_records > 0
    /\ ret.arg = num_records + 1
    /\ ret.res.tag = "none"


\* what get(k) returns
ExpectedGet(k) ==
    IF k < num_records THEN ReadRecord(record_indexes[k + 1]) ELSE ResNone

\* C5: a stream polled to its end has yielded exactly num_records items, and
\* the item it yields at position k is the result of get(k)
C5_StreamEqualsGets ==
    /\ \A h \in Handles : handle[h].kind = "ended" => handle[h].yielded = num_records
    /\ (ret.op = "poll" /\ ret.res.tag # "none") => ret.res = ExpectedGet(ret.arg)

\* C6: from_paths returns a Dataset only if every path scanned cleanly, and
\* then the index has one locator for every frame of every path; a build that
\* has not succeeded has handed out no Dataset
C6_NoPartialIndex ==
    /\ build = "ok" =>
          /\ \A i \in 1..NPaths : FileDefect(paths[i], check_integrity) = None
          /\ Len(record_indexes) = Len(ConcatFrames(paths))
    /\ build # "ok" => \A h \in Handles : handle[h].kind = "free"

\* a build failed after it had collected locators, and no Dataset exists
C6_Witness ==
    /\ build = "err"
    /\ record_indexes # <<>>
    /\ \A h \in Handles : handle[h].kind = "free"

\* the paths that cannot be indexed
Defective == {i \in 1..NPaths : FileDefect(paths[i], check_integrity) # None}

\* what the caller can tell about an error: its kind and the file it is about
Observable(e) == <<e.kind, paths[e.path]>>

\* C7 as stated: the error from_paths returns is the error that occurred
\* first in time among all tasks
C7_ReturnsEarliestError ==
    build = "err" => Observable(buildErr) = Observable(firstErr)

\* C7: the error from_paths returns is the error of the first path in input
\* order that cannot be indexed
C7_ReturnsErrorOfFirstPath ==
    build = "err" =>
        /\ Defective # {}
        /\ buildErr = ErrorAt(FileDefect(paths[Min(Defective)], check_integrity), Min(Defective))

\* two paths failed, the later path first in time, and from_paths returned
\* the error of the earlier path
C7_Witness ==
    /\ build = "err"
    /\ firstErr.path > buildErr.path
    /\ buildErr.path = 1
    /\ firstErr.kind # buildErr.kind

\* a file that is complete and has a frame with a wrong payload checksum
CksumCorrupt(p) ==
    /\ Disk[p].exists
    /\ Disk[p].cut = 0
    /\ \E k \in 1..Len(Disk[p].frames) : ~Disk[p].frames[k].cksumOk

\* C8: over complete files of which one has a frame with a corrupted payload
\* checksum, from_paths fails with a corruption error when check_integrity is
\* set, and otherwise succeeds and indexes every frame
C8_ChecksumOnlyWhenChecked ==
    (/\ build # "running"
     /\ \E i \in 1..NPaths : CksumCorrupt(paths[i])
     /\ \A i \in 1..NPaths : Disk[paths[i]].exists /\ Disk[paths[i]].cut = 0)
    => IF check_integrity
       THEN build = "err" /\ buildErr.kind = "corruption"
       ELSE build = "ok" /\ record_indexes = ConcatLocators(paths)

\* without check_integrity the build of a file with a corrupted frame
\* succeeded, the corrupted frame is in the index
C8_Witness ==
    /\ build = "ok"
    /\ ~check_integrity
    /\ \E k \in 1..num_records :
          /\ ~ConcatFrames(paths)[k].cksumOk
          /\ CksumCorrupt(record_indexes[k].path)

\* C9: get and stream steps never report a corruption error, and get(i) of a
\* record whose payload checksum is wrong returns its payload
C9_ReadsAreUnchecked ==
    /\ ret.op \in {"get", "poll"} => ret.res.err # "corruption"
    /\ (/\ ret.op = "get"
        /\ ret.arg < num_records
        /\ ~ConcatFrames(paths)[ret.arg + 1].cksumOk)
       => ret.res = ResSome(ConcatFrames(paths)[ret.arg + 1].payload)

\* get has returned the payload of a record whose checksum is wrong
C9_Witness ==
    /\ ret.op = "get"
    /\ ret.arg < num_records
    /\ ~ConcatFrames(paths)[ret.arg + 1].cksumOk
    /\ ret.res.tag = "some"

\* C10: at most max_workers tasks are spawned and not yet taken out of the
\* buffer by the build
C10_WorkersBounded ==
    Cardinality(InFlight) <= max_workers

\* the buffer is full while a path still waits for its task to be spawned
C10_Witness ==
    /\ Cardinality(InFlight) = max_workers
    /\ Unspawned # {}
    /\ \E i \in InFlight : task[i] = "ready"


\* C11: a clone starts without open file and without permit and shares the
\* index and the limiter; cloning leaves every other handle, the limiter and
\* the index as they are, and no step changes the cache of two handles
C11_CloneStartsEmpty ==
    [][/\ \A n \in Handles :
             (handle[n].kind = "free" /\ handle'[n].kind = "dataset") =>
                 /\ handle'[n].path = None
                 /\ ~handle'[n].permit
                 /\ handle'[n].pc = "idle"
                 /\ \A h \in Handles \ {n} : handle'[h] = handle[h]
                 /\ permits' = permits
                 /\ record_indexes' = record_indexes
       /\ \A h, g \in Handles :
             h # g => (handle'[h] = handle[h] \/ handle'[g] = handle[g])]_vars

\* the original has a file open, its clone is idle and has none
C11_Witness ==
    /\ handle[1].kind = "dataset"
    /\ handle[1].path # None
    /\ handle[2].kind = "dataset"
    /\ handle[2].path = None
    /\ handle[2].pc = "idle"


\* what an access to position i must give, judged from how the files were
\* written: the payload of the i-th frame, a decode error if the codec rejects
\* it, nothing past the last frame
FromDisk(i) ==
    IF i >= Len(ConcatFrames(paths)) THEN ResNone
    ELSE IF ConcatFrames(paths)[i + 1].payload = BadPayload THEN ResErr("decode")
    ELSE ResSome(ConcatFrames(paths)[i + 1].payload)

C13_PausedStreamBlocksNobody ==
    \A h \in Handles :
        (/\ handle[h].kind = "dataset"
         /\ handle[h].pc = "acquire"
         /\ \A g \in Handles \ {h} : handle[g].kind # "dataset")
        ~> (handle[h].pc = "idle")


\* C14: a stream that has yielded an error goes on with the records after
\* it: the poll after the error reports the end of the stream only if no
\* record is left
C14_ErrorDoesNotEndStream ==
    [][\A h \in Handles :
          (handle[h].kind = "failed" /\ handle'[h].kind = "ended") =>
              handle[h].cursor + 1 >= num_records]_vars


\* C15: every get returns what the files hold at its index, also after other
\* gets have failed; the step in which a get returns an error leaves the index
\* as it is and every handle a handle of the kind it was, the failing one idle
C15_ErrorsAreLocal ==
    [][/\ ret'.op = "get" => ret'.res = FromDisk(ret'.arg)
       /\ (ret'.op = "get" /\ ret'.res.tag = "err" /\ ret' # ret) =>
             /\ record_indexes' = record_indexes
             /\ \A g \in Handles :
                   /\ handle'[g].kind = handle[g].kind
                   /\ handle'[g] = handle[g] \/ handle'[g].pc = "idle"]_vars

\* the get inside a stream step has failed at a record, and afterwards a get
\* of a later record on another handle has returned the record
C15_Witness ==
    /\ ret.op = "get"
    /\ ret.res.tag = "some"
    /\ \E h, g \in Handles :
          /\ handle[h].kind = "failed"
          /\ ret.arg > handle[h].cursor
          /\ handle[g].kind = "dataset"
          /\ handle[g].path = record_indexes[ret.arg + 1].path


\* C16: what a get returns is a function of its index and of the files alone:
\* whichever handle makes the call, a Dataset or a stream step, and whatever
\* file that handle has open from its earlier calls, get(i) returns what the
\* files hold at locator i, so two returns for one index are equal
C16_GetIsAFunctionOfIndex ==
    [][LET isGet(r) == \/ r.op = "get"
                       \/ r.op = "poll" /\ (r.res.tag # "none" \/ r.arg >= num_records)
       IN  /\ isGet(ret') => ret'.res = FromDisk(ret'.arg)
           /\ (isGet(ret) /\ isGet(ret') /\ ret'.arg = ret.arg) => ret'.res = ret.res]_vars

\* a stream has been handed record i and has moved on to another file, and a
\* Dataset handle with the file of record i open has been handed record i too
C16_Witness ==
    /\ ret.op = "get"
    /\ ret.res.tag = "some"
    /\ \E h, g \in Handles :
          /\ handle[h].kind = "dataset"
          /\ handle[h].path = record_indexes[ret.arg + 1].path
          /\ handle[g].kind = "stream"
          /\ handle[g].cursor > ret.arg
          /\ handle[g].path \notin {None, handle[h].path}


\* C17: once from_paths has returned the Dataset, no get, stream step, clone,
\* stream() or drop, failed or not, changes the index: every locator and
\* num_records stay what they were when the build ended
C17_IndexIsImmutable ==
    [][build = "ok" => /\ build' = "ok"
                       /\ record_indexes' = record_indexes
                       /\ Len(record_indexes') = Len(ConcatFrames(paths))]_vars

\* a stream has ended on a failed step, a Dataset handle has read a record and has a
\* file open, and the index still has its locators
C17_Witness ==
    /\ build = "ok"
    /\ num_records > 0
    /\ ret.res.tag = "some"
    /\ \E h, g \in Handles :
          /\ handle[h].kind = "ended"
          /\ handle[h].yielded < num_records
          /\ handle[g].kind = "dataset"
          /\ handle[g].path # None


\* the bytes try_read_len consumes: the length field and its integrity field
LenHeaderSize == LenFieldSize + CksumSize

\* number of index entries that precede those of the i-th path of the list
ScanStart(i) == Len(ConcatFrames(SubSeq(paths, 1, i - 1)))

\* the position in the list of paths of the scan that produced index entry k
ScanOf(k) ==
    CHOOSE i \in 1..NPaths :
        ScanStart(i) < k /\ k <= ScanStart(i) + Len(Disk[paths[i]].frames)

\* the byte range of a locator lies in its file, starts right after the length
\* header of a frame, and is as long as that length field says
LocatorIsFrame(r) ==
    LET bytes == Disk[r.path].bytes
    IN  /\ r.offset >= LenHeaderSize
        /\ r.offset + r.len <= Len(bytes)
        /\ r.len = FromLE(Slice(bytes, r.offset - LenHeaderSize, LenFieldSize))

C19_TruncatedFileFailsBuild ==
    [][\A i \in 1..NPaths :
          LET f == Disk[paths[i]]
              \* the index stream of path i reports its end to the running build
              scanEnds == /\ task[i] = "consumed"
                          /\ task'[i] = "finished"
                          /\ build' = "running"
          IN  /\ scanEnds =>
                    /\ inner = i
                    /\ scanPos = Len(f.bytes)
                    /\ f.bytes = FramesBytes(f.frames)
              /\ (f.exists /\ f.cut > 0) =>
                    /\ ~scanEnds
                    /\ build' # "ok"
                    /\ (build' = "err" /\ buildErr'.path = i) =>
                          buildErr'.kind = "corruption"]_vars

\* a build without integrity checks has failed on the file whose second frame
\* lacks the end of its payload
C19_Witness ==
    /\ build = "err"
    /\ ~check_integrity
    /\ buildErr.kind = "corruption"
    /\ paths[buildErr.path] = "t"
    /\ \A h \in Handles : handle[h].kind = "free"


\* C20: with readable, well-formed files the build never comes to a stand:
\* there is no state in which from_paths waits for the output of the task of a
\* path while that task waits for a permit and every permit is held by the
\* unconsumed output of the task of a later path
C20_BuildNeverWaitsOnItself ==
    ~ /\ build = "running"
      /\ \A i \in 1..NPaths : FileDefect(paths[i], check_integrity) = None
      /\ inner = 0
      /\ InFlight # {}
      /\ ToSpawn = {}
      /\ task[Min(InFlight)] = "spawned"
      /\ Limited
      /\ permits = 0
      /\ \A j \in 1..NPaths :
            task[j] \in {"permit", "ready", "consumed"} =>
                j > Min(InFlight) /\ task[j] = "ready"

\* C21: a handle has an open file only together with its path, and a permit
\* only for an open file; the step in which a get starts to wait for a permit
\* has closed the file the handle had open and has given its permit back, so
\* a waiting handle holds neither a file nor a permit
C21_ReleaseBeforeAcquire ==
    [][\A h \in Handles :
          /\ handle'[h].permit => (Limited /\ handle'[h].path # None)
          /\ handle'[h].pc = "acquire" =>
                (~handle'[h].permit /\ handle'[h].path = None)
          /\ (handle[h].pc = "idle" /\ handle'[h].pc = "acquire") =>
                permits' = permits + (IF handle[h].permit THEN 1 ELSE 0)]_vars

\* with one permit, a stream has read the records of the first file and then
\* a record of another file: it holds the permit, for the second file
C21_Witness ==
    /\ max_open_files = 1
    /\ permits = 0
    /\ \E h \in Handles :
          /\ handle[h].kind = "stream"
          /\ handle[h].pc = "idle"
          /\ handle[h].permit
          /\ handle[h].cursor > 0
          /\ handle[h].path = record_indexes[handle[h].cursor].path
          /\ handle[h].path # record_indexes[1].path

\* C22: a get of a record of the file its handle has open does not wait for a
\* permit, and returns the record with the available permits and the open
\* file and permit of every handle as they were before the call
C22_CacheHitIsFree ==
    [][/\ \A h \in Handles :
             (handle[h].pc = "idle" /\ handle'[h].pc = "acquire") =>
                 record_indexes[handle'[h].arg + 1].path # handle[h].path
       /\ ( /\ ret' # ret
            /\ ret'.res.tag # "none"
            /\ ret'.op = "get" \/ ret'.res.tag = "some"
            /\ \A g \in Handles : handle[g].pc = "acquire" => handle'[g] = handle[g] )
          => /\ permits' = permits
             /\ \A g \in Handles : /\ handle'[g].path = handle[g].path
                                   /\ handle'[g].permit = handle[g].permit
             /\ \E h \in Handles :
                   /\ handle[h].pc = "idle"
                   /\ handle[h].path = record_indexes[ret'.arg + 1].path]_vars

\* with one permit, a stream has been handed the second record of the file
\* it opened for the first, and still holds the permit
C22_Witness ==
    /\ max_open_files = 1
    /\ permits = 0
    /\ ret.op = "poll"
    /\ ret.arg = 1
    /\ ret.res.tag = "some"
    /\ \E h \in Handles :
          /\ handle[h].kind = "stream"
          /\ handle[h].cursor = 2
          /\ handle[h].permit
          /\ handle[h].path = record_indexes[1].path
          /\ handle[h].path = record_indexes[2].path

\* permits held by the tasks of the build and by the index streams they returned
PermitsOfBuild == Cardinality({i \in 1..NPaths : task[i] \in {"permit", "ready", "consumed"}})

\* permits held by the open files of the handles
PermitsOfHandles == Cardinality({h \in Handles : handle[h].permit})

\* C23: the available permits and the permits held by indexing tasks, index
\* streams and handle caches add up to max_open_files in every state
C23_PermitsAreConserved ==
    Limited => /\ permits \in 0..max_open_files
               /\ permits + PermitsOfBuild + PermitsOfHandles = max_open_files

\* a Dataset handle has read a record, every handle has been dropped since,
\* and all permits are back
C23_Witness ==
    /\ Limited
    /\ build = "ok"
    /\ ret.op = "get"
    /\ ret.res.tag = "some"
    /\ \A h \in Handles : handle[h].kind = "free"
    /\ permits = max_open_files

\* the task of path i, or the index stream it returned, holds a permit
HoldsPermit(t, i) == Limited /\ t[i] \in {"permit", "ready", "consumed"}

\* C24: with max_open_files set, the file of a path is open only under a
\* permit its task acquired before the open, the permit is held while the
\* index stream of the path is being read, and it goes back to the limiter
\* only when that stream has reported its end with the reader at the end of
\* the file, when the open has failed, or when the build has failed and
\* discards the stream
C24_PermitHeldForWholeScan ==
    [][Limited =>
          \A i \in 1..NPaths :
             /\ task'[i] \in {"ready", "consumed"} => HoldsPermit(task, i)
             /\ inner' = i => HoldsPermit(task', i)
             /\ (HoldsPermit(task, i) /\ ~HoldsPermit(task', i)) =>
                   /\ permits' > permits
                   /\ \/ /\ inner = i
                         /\ scanPos = Len(Disk[paths[i]].bytes)
                         /\ inner' = 0
                      \/ task[i] = "permit" /\ ~Disk[paths[i]].exists
                      \/ build' = "err"]_vars

\* the build has read the last frame of a file and has not yet seen the end
\* of its index stream: the permit is still out
C24_Witness ==
    /\ Limited
    /\ build = "running"
    /\ inner # 0
    /\ scanPos > 0
    /\ scanPos = Len(Disk[paths[inner]].bytes)
    /\ task[inner] = "consumed"
    /\ permits < max_open_files

\* the build is about to observe an error: the output it takes out of the
\* buffer next is a failed open, or the next read of the index stream fails
ErrorAtHand ==
    /\ build = "running"
    /\ IF inner = 0
       THEN \E h \in ReadyOutputs : task[h] = "failed"
       ELSE record_index_step(Disk[paths[inner]].bytes, scanPos, check_integrity).tag = "err"

\* C25: the build returns an error in the step in which it observes it,
\* whatever the other spawned tasks are doing, and a build that has returned
\* an error is reading no index stream
C25_FailsFast ==
    /\ ErrorAtHand => ENABLED ((BuildPollOuter \/ BuildScanFrame) /\ build' = "err")
    /\ ErrorAtHand => ~ENABLED ((BuildPollOuter \/ BuildScanFrame) /\ build' # "err")
    /\ build = "err" => (inner = 0 /\ scanPos = 0 /\ buildErr # NoError)

\* the build has returned an error while the task of another path was still
\* waiting for its permit or opening its file
C25_Witness ==
    /\ build = "err"
    /\ \E i \in 1..NPaths : i # buildErr.path /\ task[i] \in {"spawned", "permit"}

\* no task of the build is running or has an output, no file of the build is
\* open and every permit is back
BuildIsQuiet ==
    /\ \A i \in 1..NPaths : task[i] \in {"unspawned", "finished"}
    /\ inner = 0
    /\ permits = max_open_files

\* C26: after from_paths has returned an error, every task it had spawned
\* comes to its end, and every file opened and every permit acquired for the
\* build is closed and given back
C26_FailedBuildCleansUp == (build = "err") ~> [](BuildIsQuiet)

\* a build of two paths has failed on the first; the task of the second has
\* ended too and every permit is back
C26_Witness ==
    /\ build = "err"
    /\ Limited
    /\ NPaths = 2
    /\ buildErr.path = 1
    /\ task[2] = "finished"
    /\ BuildIsQuiet

\* h is the only handle that is a Dataset or a live stream
OnlyLiveHandle(h) ==
    /\ handle[h].kind \in {"dataset", "stream"}
    /\ \A g \in Handles \ {h} : handle[g].kind \notin {"dataset", "stream"}

\* C27: with one permit and one live handle, a get that has to open another
\* file never waits on itself: the permit is free when it asks for it, and
\* the step that takes the permit, opens the file and returns from the get
\* is enabled
C27_LoneHandleNeverBlocks ==
    \A h \in Handles :
        (max_open_files = 1 /\ OnlyLiveHandle(h) /\ handle[h].pc = "acquire") =>
            /\ permits = 1
            /\ ENABLED (GetOpen(h) /\ handle'[h].pc = "idle" /\ ret'.arg = handle[h].arg)

\* with one permit, the one live handle has been handed a record of one file
\* and is opening another file for its next get
C27_Witness ==
    /\ max_open_files = 1
    /\ ret.op = "get"
    /\ ret.res.tag = "some"
    /\ \E h \in Handles :
          /\ OnlyLiveHandle(h)
          /\ handle[h].kind = "dataset"
          /\ handle[h].pc = "acquire"
          /\ record_indexes[handle[h].arg + 1].path # record_indexes[ret.arg + 1].path

\* C28: without max_open_files there is no semaphore: no task of the build
\* is ever in acquire_owned, a spawned task can go on to open its file, and
\* a get or stream step that has to open a file can do so at once, whatever
\* the other handles hold
C28_NoLimiterNoWaiting ==
    max_open_files = 0 =>
        /\ permits = 0
        /\ \A i \in 1..NPaths :
              /\ task[i] # "permit"
              /\ ~ENABLED TaskAcquire(i)
              /\ task[i] = "spawned" => ENABLED TaskOpen(i)
        /\ \A h \in Handles :
              /\ ~handle[h].permit
              /\ handle[h].pc = "acquire" => ENABLED GetOpen(h)

\* without max_open_files, the task of a later path ended before the task
\* of an earlier one, and a handle opens a file while another handle has a
\* file open
C28_Witness ==
    /\ max_open_files = 0
    /\ overtaken
    /\ \E h, g \in Handles :
          /\ h # g
          /\ handle[h].pc = "acquire"
          /\ handle[g].path # None

\* C29: once from_paths has returned the Dataset, every task of the build
\* has ended with its index stream read to the end, no file of the build is
\* open and no permit of the build is out: the permits are all available or
\* held by handles, and a handle that asks for one while no handle holds one
\* gets it at once
C29_BuildReturnsAllPermits ==
    build = "ok" =>
        /\ \A i \in 1..NPaths : task[i] = "finished"
        /\ inner = 0
        /\ permits = max_open_files - Cardinality({h \in Handles : handle[h].permit})
        /\ \A h \in Handles :
              (handle[h].pc = "acquire" /\ \A g \in Handles : ~handle[g].permit) =>
                  ENABLED GetOpen(h)

\* from_paths has just returned the Dataset of two files built under one
\* permit, and the permit is available
C29_Witness ==
    /\ build = "ok"
    /\ max_open_files = 1
    /\ permits = 1
    /\ NPaths = 2
    /\ num_records > 0
    /\ ret = NoRet
    /\ handle[1] = NewDataset
    /\ \A h \in Handles \ {1} : handle[h] = FreeHandle

\* C30: the build reads the frames itself, one index stream at a time and in
\* the order of the paths: every locator it collects is of the one path whose
\* stream it is reading, the scans of all earlier paths have ended and all
\* their locators are in the index, and the tasks of later paths have at
\* most opened their files
C30_FramesReadInPathOrder ==
    [][/\ inner' # 0 =>
             /\ build' = "running"
             /\ task'[inner'] = "consumed"
             /\ \A i \in 1..NPaths :
                   /\ i < inner' => task'[i] = "finished"
                   /\ i > inner' => task'[i] \in {"unspawned", "spawned", "permit",
                                                  "ready", "failed"}
       /\ record_indexes' # record_indexes =>
             /\ inner # 0
             /\ inner' = inner
             /\ Len(record_indexes') = Len(record_indexes) + 1
             /\ SubSeq(record_indexes', 1, Len(record_indexes)) = record_indexes
             /\ record_indexes'[Len(record_indexes')].path = paths[inner]
             /\ Len(record_indexes) >= ScanStart(inner)
             /\ Len(record_indexes) < ScanStart(inner) + Len(Disk[paths[inner]].frames)]_vars

\* with two workers the build is reading the frames of the first path while
\* the task of the second has opened its file, of which nothing has been read
C30_Witness ==
    /\ build = "running"
    /\ max_workers = 2
    /\ NPaths = 2
    /\ inner = 1
    /\ scanPos > 0
    /\ record_indexes # <<>>
    /\ task[2] = "ready"

\* C31: when the open of a file a get asked for fails, the get returns an
\* I/O error and its handle has no file and no permit: the file it had open
\* was closed before, the permit acquired for the open is back with the
\* limiter, and a Dataset handle stays a Dataset handle with an empty cache
C31_FailedOpenEmptiesCache ==
    [][\A h \in Handles :
          /\ handle'[h].pc = "acquire" => (handle'[h].path = None /\ ~handle'[h].permit)
          /\ ( /\ handle[h].pc = "acquire"
               /\ handle'[h].pc = "idle"
               /\ handle'[h].kind # "free"
               /\ ret'.res.tag = "err"
               /\ ret'.res.err = "io" )
             => /\ ret'.arg = handle[h].arg
                /\ handle'[h].path = None
                /\ ~handle'[h].permit
                /\ permits' = permits
                /\ handle[h].kind = "dataset" => handle'[h].kind = "dataset"
                /\ \A g \in Handles \ {h} : handle'[g] = handle[g]]_vars

\* with one permit, the open for a get of the only handle has failed: the
\* handle is idle with an empty cache and the permit is available
C31_Witness ==
    /\ max_open_files = 1
    /\ permits = 1
    /\ ret.op = "get"
    /\ ret.res = ResErr("io")
    /\ \E h \in Handles :
          /\ OnlyLiveHandle(h)
          /\ handle[h].kind = "dataset"
          /\ handle[h].pc = "idle"
          /\ handle[h].path = None
          /\ ~handle[h].permit

\* C32: a get beyond the end of the index returns the absent result without
\* touching a file or the limiter: no handle waits for a permit for such an
\* index, and the step that returns the absent result leaves every handle,
\* with its open file and permit, and the available permits as they were
C32_OutOfRangeTouchesNothing ==
    [][/\ \A h \in Handles :
             handle'[h].pc = "acquire" => handle'[h].arg < num_records
       /\ (ret'.op = "get" /\ ret'.res.tag = "none" /\ ret' # ret) =>
             /\ ret'.arg >= num_records
             /\ handle' = handle
             /\ permits' = permits]_vars

\* with one permit, the only live handle has a file open under the permit
\* and the last get returned the absent result
C32_Witness ==
    /\ max_open_files = 1
    /\ permits = 0
    /\ ret.op = "get"
    /\ ret.res.tag = "none"
    /\ ret.arg >= num_records
    /\ \E h \in Handles :
          /\ OnlyLiveHandle(h)
          /\ handle[h].kind = "dataset"
          /\ handle[h].pc = "idle"
          /\ handle[h].path # None
          /\ handle[h].permit

\* the colour type of the same channels with 16-bit samples, if there is one
SixteenBit(ct) ==
    CASE ct = "L8" -> "L16" [] ct = "La8" -> "La16" [] ct = "Rgb8" -> "Rgb16"
      [] ct = "Rgba8" -> "Rgba16" [] OTHER -> None

\* C33: num_channels is 1, 2, 3, 4, 3, 4 for Luma, LumaA, Rgb, Rgba,
\* DigitalYuv, Bgra; the conversion from ColorType gives a colour type with
\* 8-bit samples and the one with 16-bit samples the same ColorSpace, and a
\* conversion error exactly for the colour types outside L8, La8, Rgb8,
\* Rgba8, Bgra8, L16, La16, Rgb16, Rgba16
C33_ColorSpaceTables ==
    /\ (image.fn = "num_channels" /\ image.out # ImgPending) =>
          /\ image.out.tag = "ok"
          /\ image.out.val =
                (CASE image.arg[1] \in {"Luma"} -> 1
                   [] image.arg[1] \in {"LumaA"} -> 2
                   [] image.arg[1] \in {"Rgb", "DigitalYuv"} -> 3
                   [] image.arg[1] \in {"Rgba", "Bgra"} -> 4)
    /\ (image.fn = "try_from" /\ image.out # ImgPending) =>
          LET ct == image.arg[1]
              supported == {"L8", "La8", "Rgb8", "Rgba8", "Bgra8",
                            "L16", "La16", "Rgb16", "Rgba16"}
          IN  /\ image.out.tag = "err" <=> ct \notin supported
              /\ image.out.tag = "err" => image.out.val = "conversion"
              /\ image.out.tag \in {"ok", "err"}
              /\ image.out.tag = "ok" => image.out.val \in ColorSpaces
              /\ SixteenBit(ct) # None => ColorSpace_try_from(SixteenBit(ct)) = image.out

\* the conversion of a colour type with 16-bit samples has returned the
\* ColorSpace of four channels
C33_Witness ==
    /\ image.fn = "try_from"
    /\ image.arg = <<"Rgba16">>
    /\ image.out = ImgOk("Rgba")
    /\ num_channels(image.out.val) = 4

\* C34: TchTensorAsImage::new returns a value exactly for a 3-dimensional
\* tensor whose channel dimension (the first for CHW, the last for HWC) has
\* num_channels sizes, and returns an Err value, without a panic, otherwise
C34_NewReturnsErrOnMismatch ==
    (image.fn = "new" /\ image.out # ImgPending) =>
        LET color_space == image.arg[1]
            order == image.arg[2]
            shape == image.arg[3]
            fits == /\ Len(shape) = 3
                    /\ num_channels(color_space) =
                          (IF order = "CHW" THEN shape[1] ELSE shape[3])
        IN  /\ image.out.tag = "ok" <=> fits
            /\ ~fits => image.out.tag = "err"

====
